---- MODULE Spec2Model ----
(***************************************************************************)
(* Model of PythonStudyBuddy/learning_concepts.py: the LearningConcept     *)
(* validation, the two LearningPath helpers and the ConceptRepository.     *)
(*                                                                         *)
(* Python strings are modelled as tuples of one-character strings, so that *)
(* strip(), lower() and the substring test `in` are computed, not assumed. *)
(* A Python dict is modelled as the sequence of its entries in iteration   *)
(* order (CPython dicts iterate in insertion order; assigning to a key     *)
(* that is present keeps the key's position).                              *)
(***************************************************************************)
EXTENDS Integers, Sequences, FiniteSets, TLC

\* concepts, learning_paths : the two dicts of a ConceptRepository
\* path, completed           : a LearningPath and the completed list passed to
\*                             its helpers
\* op, ret                   : the last call made and what it returned
\* last_added, first_order, last_added_path : history of the add calls
\*   (the record last passed under each id; the ids in order of first add)
VARIABLES concepts, learning_paths, path, completed, op, ret,
          last_added, first_order, last_added_path

vars == <<concepts, learning_paths, path, completed, op, ret,
          last_added, first_order, last_added_path>>

(***************************************************************************)
(* Strings                                                                 *)
(***************************************************************************)
Whitespace == {" ", "\t"}

LowerChar(ch) ==
    CASE ch = "A" -> "a"
      [] ch = "B" -> "b"
      [] ch = "C" -> "c"
      [] ch = "D" -> "d"
      [] ch = "E" -> "e"
      [] ch = "Z" -> "z"
      [] OTHER -> ch

lower(s) == [i \in 1..Len(s) |-> LowerChar(s[i])]

RECURSIVE lstrip(_)
lstrip(s) ==
    IF s = <<>> THEN <<>>
    ELSE IF Head(s) \in Whitespace THEN lstrip(Tail(s))
    ELSE s

RECURSIVE rstrip(_)
rstrip(s) ==
    IF s = <<>> THEN <<>>
    ELSE IF s[Len(s)] \in Whitespace THEN rstrip(SubSeq(s, 1, Len(s) - 1))
    ELSE s

strip(s) == rstrip(lstrip(s))

\* Python `sub in s` for strings: scan the offsets of s from the left.
RECURSIVE FindFrom(_, _, _)
FindFrom(sub, s, i) ==
    IF i + Len(sub) > Len(s) THEN FALSE
    ELSE IF SubSeq(s, i + 1, i + Len(sub)) = sub THEN TRUE
    ELSE FindFrom(sub, s, i + 1)

str_contains(sub, s) == FindFrom(sub, s, 0)

\* Python `x in lst` for lists: scan the elements.
RECURSIVE list_contains(_, _)
list_contains(x, lst) ==
    IF lst = <<>> THEN FALSE
    ELSE IF Head(lst) = x THEN TRUE
    ELSE list_contains(x, Tail(lst))

\* Python any(f(k) for k in lst) with f = (q in k.lower())
RECURSIVE any_keyword(_, _)
any_keyword(q, kws) ==
    IF kws = <<>> THEN FALSE
    ELSE IF str_contains(q, lower(Head(kws))) THEN TRUE
    ELSE any_keyword(q, Tail(kws))

(***************************************************************************)
(* Enumerations                                                            *)
(***************************************************************************)
SkillLevel == {"beginner", "intermediate", "expert"}

ConceptCategory ==
    {"basics", "data_structures", "control_flow", "functions",
     "object_oriented_programming", "modules", "file_io", "error_handling",
     "advanced_topics", "testing", "asynchronous_programming"}

(***************************************************************************)
(* Results of a call: a value, None, or a raised exception                 *)
(***************************************************************************)
None == [kind |-> "None"]

Value(v) == [kind |-> "value", value |-> v]

Raise(exc, msg) == [kind |-> "raise", exc |-> exc, msg |-> msg]

(***************************************************************************)
(* LearningConcept                                                         *)
(***************************************************************************)
\* The dataclass constructor: the fields as passed, defaults for the rest.
LearningConceptFields(id, name, category, skill_level, description, duration, keywords) ==
    [id |-> id,
     name |-> name,
     category |-> category,
     skill_level |-> skill_level,
     description |-> description,
     learning_objectives |-> <<>>,
     explanation |-> <<>>,
     code_examples |-> <<>>,
     challenges |-> <<>>,
     prerequisites |-> <<>>,
     next_concepts |-> <<>>,
     estimated_duration_minutes |-> duration,
     keywords |-> keywords,
     resources |-> <<>>]

\* __post_init__ testing the fields without strip()
post_init_no_strip(self) ==
    IF self.name = <<>>
    THEN Raise("ValueError", "Learning concept name cannot be empty")
    ELSE IF self.description = <<>>
    THEN Raise("ValueError", "Learning concept description cannot be empty")
    ELSE IF self.estimated_duration_minutes <= 0
    THEN Raise("ValueError", "Estimated duration must be positive")
    ELSE Value(self)

\* __post_init__: the first failing check raises; otherwise the object stands.
post_init(self) ==
    IF strip(self.name) = <<>>
    THEN Raise("ValueError", "Learning concept name cannot be empty")
    ELSE IF strip(self.description) = <<>>
    THEN Raise("ValueError", "Learning concept description cannot be empty")
    ELSE IF self.estimated_duration_minutes <= 0
    THEN Raise("ValueError", "Estimated duration must be positive")
    ELSE Value(self)

LearningConcept(id, name, category, skill_level, description, duration, keywords) ==
    post_init(LearningConceptFields(id, name, category, skill_level, description,
                                    duration, keywords))

(***************************************************************************)
(* LearningPath                                                            *)
(***************************************************************************)
LearningPath(id, name, skill_level, description, concept_ids, hours) ==
    [id |-> id,
     name |-> name,
     skill_level |-> skill_level,
     description |-> description,
     concept_ids |-> concept_ids,
     estimated_total_hours |-> hours,
     prerequisites |-> <<>>]

\* the loop without its early return: the last id that is not completed
RECURSIVE next_concept_loop_last(_, _)
next_concept_loop_last(ids, completed_concepts) ==
    IF ids = <<>> THEN None
    ELSE LET later == next_concept_loop_last(Tail(ids), completed_concepts)
         IN IF later # None THEN later
            ELSE IF ~list_contains(Head(ids), completed_concepts) THEN Value(Head(ids))
            ELSE None

RECURSIVE next_concept_loop(_, _)
next_concept_loop(ids, completed_concepts) ==
    IF ids = <<>> THEN None
    ELSE IF ~list_contains(Head(ids), completed_concepts) THEN Value(Head(ids))
    ELSE next_concept_loop(Tail(ids), completed_concepts)

get_next_concept(self, completed_concepts) ==
    next_concept_loop(self.concept_ids, completed_concepts)

(***************************************************************************)
(* Python float: an IEEE-754 double that is zero or a normal number,       *)
(* [exp |-> e, man |-> b] with b the 53 binary digits of the significand,  *)
(* b[1] = 1, standing for b[1].b[2]...b[53] * 2^e.  Every operation rounds *)
(* its exact result to the nearest double, ties to even.                   *)
(***************************************************************************)
MantBits == 53

\* n zero digits, as a tuple
Zeros(n) == SubSeq([i \in 1..64 |-> 0], 1, n)

Zero == [exp |-> 0 - 1075, man |-> Zeros(MantBits)]

RECURSIVE Pow2(_)
Pow2(k) == IF k = 0 THEN 1 ELSE 2 * Pow2(k - 1)

\* the binary digits of a natural number, most significant first
RECURSIVE to_bits(_)
to_bits(n) == IF n = 0 THEN <<>> ELSE Append(to_bits(n \div 2), n % 2)

\* 2^i mod b, by repeated squaring
RECURSIVE Pow2Mod(_, _)
Pow2Mod(i, b) ==
    IF i = 0 THEN 1 % b
    ELSE LET h == Pow2Mod(i \div 2, b)
         IN (h * h * (IF i % 2 = 1 THEN 2 ELSE 1)) % b

\* the next n binary digits of r/b (0 <= r < b), and the remainder left:
\* after i digits the remainder of the long division is r * 2^i mod b
frac_bits(r, b, n) ==
    [bits |-> [i \in 1..n |-> IF 2 * ((r * Pow2Mod(i - 1, b)) % b) >= b THEN 1 ELSE 0],
     rem |-> (r * Pow2Mod(n, b)) % b]

\* the number of zero digits before the first one in r/b (0 < r < b)
RECURSIVE lead_zeros(_, _)
lead_zeros(r, b) == IF 2 * r >= b THEN 0 ELSE 1 + lead_zeros(2 * r, b)

\* bits + 1 (all ones wrap to all zeros): the carry runs up to the last 0
inc_bits(bits) ==
    LET zeros == {i \in 1..Len(bits) : bits[i] = 0}
        last == IF zeros = {} THEN 0
                ELSE CHOOSE i \in zeros : \A j \in zeros : j <= i
    IN IF last = 0 THEN Zeros(Len(bits))
       ELSE SubSeq(bits, 1, last - 1) \o <<1>> \o Zeros(Len(bits) - last)

\* round digits[1].digits[2]... * 2^e (digits[1] = 1, at least MantBits + 1
\* digits, sticky: a non-zero remainder beyond them) to nearest, ties to even
round_nearest_even(e, digits, sticky) ==
    LET man == SubSeq(digits, 1, MantBits)
        guard == digits[MantBits + 1]
        beyond == sticky \/ \E i \in (MantBits + 2)..Len(digits) : digits[i] = 1
        up == guard = 1 /\ (beyond \/ man[MantBits] = 1)
    IN IF ~up THEN [exp |-> e, man |-> man]
       ELSE IF \A i \in 1..MantBits : man[i] = 1
       THEN [exp |-> e + 1, man |-> <<1>> \o Zeros(MantBits - 1)]
       ELSE [exp |-> e, man |-> inc_bits(man)]

\* a / b for ints a >= 0, b > 0 (true division, correctly rounded)
int_true_divide(a, b) ==
    IF a = 0 THEN Zero
    ELSE LET q == a \div b
             r == a % b
             ib == to_bits(q)
         IN IF q > 0
            THEN LET f == frac_bits(r, b, MantBits + 1 - Len(ib))
                 IN round_nearest_even(Len(ib) - 1, ib \o f.bits, f.rem # 0)
            ELSE LET z == lead_zeros(r, b)
                     f == frac_bits(r * Pow2(z), b, MantBits + 1)
                 IN round_nearest_even(0 - (z + 1), f.bits, f.rem # 0)

\* the natural number with the binary digits bits
RECURSIVE from_bits(_)
from_bits(bits) ==
    IF bits = <<>> THEN 0
    ELSE 2 * from_bits(SubSeq(bits, 1, Len(bits) - 1)) + bits[Len(bits)]

\* the n low binary digits of t, most significant first
low_bits(t, n) == LET d == to_bits(t % Pow2(n)) IN Zeros(n - Len(d)) \o d

\* bits * k + carry_in, as the digits in place and the carry out of the top:
\* a short run of digits is multiplied as a number; a long one is split, the
\* low half is multiplied first and its carry goes into the high half
RECURSIVE mul_bits(_, _, _)
mul_bits(bits, k, carry_in) ==
    IF Len(bits) <= 14
    THEN LET t == from_bits(bits) * k + carry_in
         IN [bits |-> low_bits(t, Len(bits)), carry |-> t \div Pow2(Len(bits))]
    ELSE LET mid == Len(bits) \div 2
             lo == mul_bits(SubSeq(bits, mid + 1, Len(bits)), k, carry_in)
             hi == mul_bits(SubSeq(bits, 1, mid), k, lo.carry)
         IN [bits |-> hi.bits \o lo.bits, carry |-> hi.carry]

\* f * k for a float f >= 0 and an int k >= 2 (k converts to a float exactly)
float_mul_int(f, k) ==
    IF f = Zero THEN Zero
    ELSE LET m == mul_bits(f.man, k, 0)
             product == to_bits(m.carry) \o m.bits
         IN round_nearest_even(f.exp + Len(product) - MantBits, product, FALSE)

\* counting the distinct completed ids of the path instead of its positions
count_completed_distinct(ids, completed_concepts) ==
    Cardinality({ids[i] : i \in {j \in 1..Len(ids) :
                                   list_contains(ids[j], completed_concepts)}})

RECURSIVE count_completed(_, _)
count_completed(ids, completed_concepts) ==
    IF ids = <<>> THEN 0
    ELSE (IF list_contains(Head(ids), completed_concepts) THEN 1 ELSE 0)
         + count_completed(Tail(ids), completed_concepts)

get_progress_percentage(self, completed_concepts) ==
    IF self.concept_ids = <<>> THEN Zero
    ELSE LET completed_count == count_completed(self.concept_ids, completed_concepts)
         IN float_mul_int(int_true_divide(completed_count, Len(self.concept_ids)), 100)

(***************************************************************************)
(* dict                                                                    *)
(***************************************************************************)
dict_has(d, k) == \E i \in 1..Len(d) : d[i].key = k

dict_index(d, k) == CHOOSE i \in 1..Len(d) : d[i].key = k

\* d.setdefault(k, v): a key that is present keeps its value
dict_setitem_keep(d, k, v) ==
    IF dict_has(d, k) THEN d
    ELSE Append(d, [key |-> k, value |-> v])

\* del d[k]; d[k] = v: a key that is present moves to the end
dict_setitem_move(d, k, v) ==
    SelectSeq(d, LAMBDA e : e.key # k) \o <<[key |-> k, value |-> v]>>

\* d[k] = v
dict_setitem(d, k, v) ==
    IF dict_has(d, k)
    THEN [d EXCEPT ![dict_index(d, k)] = [key |-> k, value |-> v]]
    ELSE Append(d, [key |-> k, value |-> v])

\* d[k]: a missing key raises
dict_get_raise(d, k) ==
    IF dict_has(d, k) THEN Value(d[dict_index(d, k)].value)
    ELSE Raise("KeyError", k)

\* d.get(k)
dict_get(d, k) ==
    IF dict_has(d, k) THEN Value(d[dict_index(d, k)].value) ELSE None

\* list(d.values())
dict_values(d) == [i \in 1..Len(d) |-> d[i].value]

(***************************************************************************)
(* ConceptRepository                                                       *)
(***************************************************************************)
\* self.concepts = {concept.id: concept}: the table rebound, not updated
add_concept_reset(cs, concept) == <<[key |-> concept.id, value |-> concept]>>

add_concept(cs, concept) == dict_setitem(cs, concept.id, concept)

get_concept(cs, concept_id) == dict_get(cs, concept_id)

add_learning_path(ps, learning_path) == dict_setitem(ps, learning_path.id, learning_path)

get_learning_path(ps, path_id) == dict_get(ps, path_id)

RECURSIVE filter_level(_, _)
filter_level(vals, skill_level) ==
    IF vals = <<>> THEN <<>>
    ELSE IF Head(vals).skill_level = skill_level
    THEN <<Head(vals)>> \o filter_level(Tail(vals), skill_level)
    ELSE filter_level(Tail(vals), skill_level)

RECURSIVE filter_category(_, _)
filter_category(vals, category) ==
    IF vals = <<>> THEN <<>>
    ELSE IF Head(vals).category = category
    THEN <<Head(vals)>> \o filter_category(Tail(vals), category)
    ELSE filter_category(Tail(vals), category)

\* returning from inside the loop: the first concept of the level only
get_concepts_by_level_first(cs, skill_level) ==
    LET found == filter_level(dict_values(cs), skill_level)
    IN IF found = <<>> THEN <<>> ELSE <<found[1]>>

get_concepts_by_level(cs, skill_level) == filter_level(dict_values(cs), skill_level)

\* category or skill level, instead of both
get_concepts_by_category_or(cs, category, skill_level) ==
    IF skill_level # "None"
    THEN SelectSeq(dict_values(cs),
                   LAMBDA c : c.category = category \/ c.skill_level = skill_level)
    ELSE filter_category(dict_values(cs), category)

\* skill_level is None or a SkillLevel member; every Enum member is truthy.
get_concepts_by_category(cs, category, skill_level) ==
    LET by_cat == filter_category(dict_values(cs), category)
    IN IF skill_level # "None" THEN filter_level(by_cat, skill_level) ELSE by_cat

get_learning_paths_by_level(ps, skill_level) == filter_level(dict_values(ps), skill_level)

\* the search without the keywords
search_match_no_keywords(query_lower, concept) ==
    \/ str_contains(query_lower, lower(concept.name))
    \/ str_contains(query_lower, lower(concept.description))

search_match(query_lower, concept) ==
    \/ str_contains(query_lower, lower(concept.name))
    \/ str_contains(query_lower, lower(concept.description))
    \/ any_keyword(query_lower, concept.keywords)

RECURSIVE search_loop(_, _, _)
search_loop(vals, query_lower, results) ==
    IF vals = <<>> THEN results
    ELSE IF search_match(query_lower, Head(vals))
    THEN search_loop(Tail(vals), query_lower, Append(results, Head(vals)))
    ELSE search_loop(Tail(vals), query_lower, results)

search_concepts(cs, query) == search_loop(dict_values(cs), lower(query), <<>>)

(***************************************************************************)
(* Inputs                                                                  *)
(***************************************************************************)
ConceptIds == {"c1", "c2"}

PathIds == {"p1", "p2"}

Names == {<<>>, <<"A", "b">>}

Descriptions == {<<"B", " ", "d">>}

Durations == {0, 45}

KeywordLists == {<<>>}

Categories == {"basics", "functions"}

PathLevels == {"beginner", "expert"}

Queries == {<<>>, <<"a">>, <<"z">>}

\* more kinds of invalid field, for the validation
CheckedNames == {<<>>, <<" ">>, <<"\t", " ">>, <<"A", "b">>, <<" ", "c", " ">>}

CheckedDescriptions == {<<>>, <<" ", "\t">>, <<"B", " ", "d">>}

CheckedDurations == {-5, 0, 1, 45}

\* richer text, for the search
SearchQueries == {<<>>, <<"a">>, <<"A", "B">>, <<"D">>, <<"E">>, <<"b", "d">>, <<"z">>}

SearchNames == {<<"A", "b">>, <<"c">>}

SearchDescriptions == {<<"B", " ", "d">>}

SearchKeywordLists == {<<>>, << <<"C", "a">>, <<"e">> >>}

\* the LearningPath helpers: paths and completed lists up to a length
MaxPathLen == 4

MaxCompletedLen == 3

StudyIds == {"a", "b"}

CompletedIds == {"a", "b", "z"}

SeqsUpTo(S, n) == UNION {[1..k -> S] : k \in 0..n}

NoPath == LearningPath("", <<>>, "beginner", <<>>, <<>>, 0)

(***************************************************************************)
(* The repository as a state machine                                       *)
(***************************************************************************)
Init ==
    /\ concepts = <<>>
    /\ learning_paths = <<>>
    /\ path = NoPath
    /\ completed = <<>>
    /\ op = [name |-> "__init__"]
    /\ ret = None
    /\ last_added = [id \in ConceptIds |-> None]
    /\ first_order = <<>>
    /\ last_added_path = [id \in PathIds |-> None]

\* repo.add_concept(LearningConcept(...)) with a construction that succeeds
AddConceptOf(names, categories, levels, descriptions, durations, keywordLists) ==
    \E id \in ConceptIds, name \in names, category \in categories,
       skill_level \in levels, description \in descriptions,
       duration \in durations, keywords \in keywordLists :
        LET made == LearningConcept(id, name, category, skill_level, description,
                                    duration, keywords)
            old == get_concept(concepts, id)
        IN /\ made.kind = "value"
           /\ concepts' = add_concept(concepts, made.value)
           /\ op' = [name |-> "add_concept", id |-> id,
                     replaced |-> (old # None),
                     old_level |-> IF old = None THEN "None"
                                   ELSE old.value.skill_level]
           /\ ret' = None
           /\ last_added' = [last_added EXCEPT ![id] = Value(made.value)]
           /\ first_order' = IF list_contains(id, first_order) THEN first_order
                             ELSE Append(first_order, id)
           /\ UNCHANGED <<learning_paths, last_added_path, path, completed>>

AddConcept ==
    AddConceptOf(Names, Categories, SkillLevel, Descriptions, Durations, KeywordLists)

AddSearchable ==
    AddConceptOf(SearchNames, {"basics"}, {"beginner"}, SearchDescriptions, {45},
                 SearchKeywordLists)

\* repo.add_concept(LearningConcept(...)) with a construction that raises:
\* the exception propagates and add_concept is never called
ConstructFailsOf(names, descriptions, durations) ==
    \E name \in names, description \in descriptions, duration \in durations :
        LET made == LearningConcept("c1", name, "basics", "beginner", description,
                                    duration, <<>>)
        IN /\ made.kind = "raise"
           /\ op' = [name |-> "LearningConcept", arg_name |-> name,
                     arg_description |-> description, arg_duration |-> duration]
           /\ ret' = made
           /\ UNCHANGED <<concepts, learning_paths, last_added, first_order,
                          last_added_path, path, completed>>

ConstructFails == ConstructFailsOf(Names, Descriptions, Durations)

ConstructFailsChecked ==
    ConstructFailsOf(CheckedNames, CheckedDescriptions, CheckedDurations)

AddChecked ==
    AddConceptOf(CheckedNames, {"basics"}, {"beginner"}, CheckedDescriptions,
                 CheckedDurations, {<<>>})

GetConcept ==
    \E id \in ConceptIds :
        /\ op' = [name |-> "get_concept", id |-> id]
        /\ ret' = get_concept(concepts, id)
        /\ UNCHANGED <<concepts, learning_paths, last_added, first_order,
                       last_added_path, path, completed>>

AddLearningPath ==
    \E id \in PathIds, skill_level \in PathLevels :
        LET learning_path == LearningPath(id, <<"P">>, skill_level, <<"d">>,
                                          <<"c1", "c2">>, 20)
        IN /\ learning_paths' = add_learning_path(learning_paths, learning_path)
           /\ op' = [name |-> "add_learning_path", id |-> id,
                     replaced |-> (get_learning_path(learning_paths, id) # None)]
           /\ ret' = None
           /\ last_added_path' = [last_added_path EXCEPT ![id] = Value(learning_path)]
           /\ UNCHANGED <<concepts, last_added, first_order, path, completed>>

GetLearningPath ==
    \E id \in PathIds :
        /\ op' = [name |-> "get_learning_path", id |-> id]
        /\ ret' = get_learning_path(learning_paths, id)
        /\ UNCHANGED <<concepts, learning_paths, last_added, first_order,
                       last_added_path, path, completed>>

GetConceptsByLevel ==
    \E skill_level \in SkillLevel :
        /\ op' = [name |-> "get_concepts_by_level", skill_level |-> skill_level]
        /\ ret' = Value(get_concepts_by_level(concepts, skill_level))
        /\ UNCHANGED <<concepts, learning_paths, last_added, first_order,
                       last_added_path, path, completed>>

GetConceptsByCategory ==
    \E category \in Categories, skill_level \in SkillLevel \cup {"None"} :
        /\ op' = [name |-> "get_concepts_by_category", category |-> category,
                  skill_level |-> skill_level]
        /\ ret' = Value(get_concepts_by_category(concepts, category, skill_level))
        /\ UNCHANGED <<concepts, learning_paths, last_added, first_order,
                       last_added_path, path, completed>>

GetLearningPathsByLevel ==
    \E skill_level \in SkillLevel :
        /\ op' = [name |-> "get_learning_paths_by_level", skill_level |-> skill_level]
        /\ ret' = Value(get_learning_paths_by_level(learning_paths, skill_level))
        /\ UNCHANGED <<concepts, learning_paths, last_added, first_order,
                       last_added_path, path, completed>>

SearchConceptsOf(queries) ==
    \E query \in queries :
        /\ op' = [name |-> "search_concepts", query |-> query]
        /\ ret' = Value(search_concepts(concepts, query))
        /\ UNCHANGED <<concepts, learning_paths, last_added, first_order,
                       last_added_path, path, completed>>

SearchConcepts == SearchConceptsOf(Queries)

SearchText == SearchConceptsOf(SearchQueries)

Next ==
    \/ AddConcept
    \/ ConstructFails
    \/ GetConcept
    \/ AddLearningPath
    \/ GetLearningPath
    \/ GetConceptsByLevel
    \/ GetConceptsByCategory
    \/ GetLearningPathsByLevel
    \/ SearchConcepts

Spec == Init /\ [][Next]_vars

\* the concept table alone, with varied names and keywords, and the search
NextSearch ==
    \/ AddSearchable
    \/ SearchText

SpecSearch == Init /\ [][NextSearch]_vars

\* the concept table alone, with every kind of invalid field
NextValidation ==
    \/ AddChecked
    \/ ConstructFailsChecked
    \/ GetConcept

SpecValidation == Init /\ [][NextValidation]_vars

\* one LearningPath and one completed list, and the two helpers applied to them
InitPath ==
    /\ concepts = <<>>
    /\ learning_paths = <<>>
    /\ path \in {LearningPath("p1", <<"P">>, "beginner", <<"d">>, ids, 20) :
                    ids \in SeqsUpTo(StudyIds, MaxPathLen)}
    /\ completed \in SeqsUpTo(CompletedIds, MaxCompletedLen)
    /\ op = [name |-> "__init__"]
    /\ ret = None
    /\ last_added = [id \in ConceptIds |-> None]
    /\ first_order = <<>>
    /\ last_added_path = [id \in PathIds |-> None]

GetNextConcept ==
    /\ op' = [name |-> "get_next_concept"]
    /\ ret' = get_next_concept(path, completed)
    /\ UNCHANGED <<concepts, learning_paths, last_added, first_order,
                   last_added_path, path, completed>>

GetProgressPercentage ==
    /\ op' = [name |-> "get_progress_percentage"]
    /\ ret' = Value(get_progress_percentage(path, completed))
    /\ UNCHANGED <<concepts, learning_paths, last_added, first_order,
                   last_added_path, path, completed>>

NextPath ==
    \/ GetNextConcept
    \/ GetProgressPercentage

SpecPath == InitPath /\ [][NextPath]_vars

(***************************************************************************)
(* Properties                                                              *)
(***************************************************************************)
Range(seq) == {seq[i] : i \in 1..Len(seq)}

Stored == Range(dict_values(concepts))

\* list holds exactly the elements of S, each once
ExactlyOnce(list, S) == Range(list) = S /\ Len(list) = Cardinality(S)

\* s is empty or made of whitespace only
Blank(s) == \A i \in 1..Len(s) : s[i] \in Whitespace

\* a occurs in b as a run of consecutive characters
IsSubstring(a, b) ==
    \E i \in 0..Len(b) : i + Len(a) <= Len(b) /\ \A j \in 1..Len(a) : b[i + j] = a[j]

Matches(query, c) ==
    \/ IsSubstring(lower(query), lower(c.name))
    \/ IsSubstring(lower(query), lower(c.description))
    \/ \E k \in 1..Len(c.keywords) : IsSubstring(lower(query), lower(c.keywords[k]))

\* the position of an id in the order of first insertion
FirstPos(id) == CHOOSE i \in 1..Len(first_order) : first_order[i] = id

InFirstOrder(list) ==
    \A i, j \in 1..Len(list) :
        i < j => /\ list[i].id \in Range(first_order)
                 /\ list[j].id \in Range(first_order)
                 /\ FirstPos(list[i].id) < FirstPos(list[j].id)

QueryOps ==
    {"get_concept", "get_learning_path", "get_concepts_by_level",
     "get_concepts_by_category", "get_learning_paths_by_level", "search_concepts"}

\* C1: in both tables a lookup by id returns the record most recently added
\* under that id, also after a second add under the same id (overwrite)
C1_LookupReturnsLastAdded ==
    /\ \A id \in ConceptIds :
           last_added[id] # None => get_concept(concepts, id) = last_added[id]
    /\ \A id \in PathIds :
           last_added_path[id] # None =>
               get_learning_path(learning_paths, id) = last_added_path[id]
    /\ (op.name = "get_concept" /\ last_added[op.id] # None) => ret = last_added[op.id]
    /\ (op.name = "get_learning_path" /\ last_added_path[op.id] # None) =>
           ret = last_added_path[op.id]

\* a concept was just replaced by one of another level, and both paths are there
C1_Witness ==
    /\ op.name = "add_concept"
    /\ op.replaced
    /\ op.old_level # last_added[op.id].value.skill_level
    /\ get_concept(concepts, op.id) = last_added[op.id]
    /\ Len(learning_paths) = 2

C2_AbsentIffNeverAdded ==
    /\ \A id \in ConceptIds :
           /\ get_concept(concepts, id).kind # "raise"
           /\ get_concept(concepts, id) = None <=> id \notin Range(first_order)
    /\ op.name = "get_concept" =>
           /\ ret.kind # "raise"
           /\ ret = None <=> op.id \notin Range(first_order)

C2_NeverAbsentAgain ==
    \A id \in ConceptIds :
        get_concept(concepts, id) # None => get_concept(concepts', id) # None

\* C2: get_concept(id) returns None, without raising, exactly when no
\* add_concept with that id has occurred; once it has returned a concept it
\* never returns None again
C2_NotFound == []C2_AbsentIffNeverAdded /\ [][C2_NeverAbsentAgain]_vars

\* one id was added, the other one is looked up and is absent
C2_Witness ==
    /\ op.name = "get_concept"
    /\ ret = None
    /\ Len(concepts) = 1

C3_Validated ==
    /\ \A name \in CheckedNames, description \in CheckedDescriptions,
          duration \in CheckedDurations :
           (Blank(name) \/ Blank(description) \/ duration <= 0) =>
               LET made == LearningConcept("c1", name, "basics", "beginner",
                                           description, duration, <<>>)
               IN made.kind = "raise" /\ made.exc = "ValueError"
    /\ op.name = "LearningConcept" =>
           /\ ret.kind = "raise"
           /\ ret.exc = "ValueError"
           /\ Blank(op.arg_name) \/ Blank(op.arg_description) \/ op.arg_duration <= 0
    /\ \A c \in Stored :
           /\ ~Blank(c.name)
           /\ ~Blank(c.description)
           /\ c.estimated_duration_minutes > 0

C3_FailureStoresNothing ==
    op'.name = "LearningConcept" =>
        concepts' = concepts /\ learning_paths' = learning_paths

\* C3: a LearningConcept with a blank name, a blank description or a duration
\* <= 0 fails with a ValueError; every stored concept has a non-blank name and
\* description and a positive duration; a failed construction changes nothing
C3_Validation == []C3_Validated /\ [][C3_FailureStoresNothing]_vars

\* a whitespace-only name was refused while the repository holds concepts
C3_Witness ==
    /\ op.name = "LearningConcept"
    /\ op.arg_name = <<"\t", " ">>
    /\ ret.kind = "raise"
    /\ Len(concepts) = 2

\* C4: get_next_concept returns the id at the smallest position of concept_ids
\* that is not in the completed list, None exactly when there is none, and
\* depends on the completed list only through which ids of the path it holds
C4_NextConcept ==
    op.name = "get_next_concept" =>
        LET ids == path.concept_ids
            pending == {i \in 1..Len(ids) : ids[i] \notin Range(completed)}
        IN /\ ret = None <=> pending = {}
           /\ pending # {} =>
                  ret = Value(ids[CHOOSE i \in pending : \A j \in pending : i <= j])
           /\ ret = None <=> \A i \in 1..Len(ids) : ids[i] \in Range(completed)
           /\ \A other \in SeqsUpTo(CompletedIds, MaxCompletedLen) :
                  Range(other) \cap Range(ids) = Range(completed) \cap Range(ids) =>
                      get_next_concept(path, other) = ret

\* "a" is completed (twice, after a foreign id) and "b" comes next
C4_Witness ==
    /\ op.name = "get_next_concept"
    /\ path.concept_ids = <<"a", "a", "b">>
    /\ completed = <<"z", "a", "a">>
    /\ ret = Value("b")

\* doubles: order, neighbours, and 100.0
Hundred == [exp |-> 6, man |-> <<1, 1, 0, 0, 1>> \o Zeros(MantBits - 5)]

FloatLe(f, g) ==
    \/ f.exp < g.exp
    \/ /\ f.exp = g.exp
       /\ \/ f.man = g.man
          \/ \E i \in 1..MantBits :
                 /\ f.man[i] < g.man[i]
                 /\ \A j \in 1..(i - 1) : f.man[j] = g.man[j]

NextUp(f) ==
    IF \A i \in 1..MantBits : f.man[i] = 1
    THEN [exp |-> f.exp + 1, man |-> <<1>> \o Zeros(MantBits - 1)]
    ELSE [exp |-> f.exp, man |-> inc_bits(f.man)]

Ones(n) == SubSeq([i \in 1..64 |-> 1], 1, n)

NextDown(f) ==
    IF f.man = <<1>> \o Zeros(MantBits - 1)
    THEN [exp |-> f.exp - 1, man |-> Ones(MantBits)]
    ELSE LET last == CHOOSE i \in 1..MantBits :
                         f.man[i] = 1 /\ \A j \in (i + 1)..MantBits : f.man[j] = 0
         IN [exp |-> f.exp,
             man |-> SubSeq(f.man, 1, last - 1) \o <<0>> \o Ones(MantBits - last)]

\* the doubles at most two units in the last place away from f
Near(f) == {f, NextUp(f), NextUp(NextUp(f)), NextDown(f), NextDown(NextDown(f))}

\* the number of positions of the path whose id is in the completed list
DonePositions == Cardinality({i \in 1..Len(path.concept_ids) :
                                  path.concept_ids[i] \in Range(completed)})

C5_Bounds(r) ==
    /\ Len(path.concept_ids) = 0 => r = Zero
    /\ FloatLe(Zero, r)
    /\ FloatLe(r, Hundred)
    /\ r = Hundred <=> (Len(path.concept_ids) > 0 /\ DonePositions = Len(path.concept_ids))

\* C5 as stated: the result is the double 100 * count / len
C5_Original ==
    op.name = "get_progress_percentage" =>
        /\ C5_Bounds(ret.value)
        /\ Len(path.concept_ids) > 0 =>
               ret.value = int_true_divide(100 * DonePositions, Len(path.concept_ids))

\* C5: get_progress_percentage returns 0.0 for an empty path; otherwise the
\* double (count / len) * 100, which is within two units in the last place of
\* 100 * count / len, counting a duplicated id once per position; the result
\* lies in [0, 100] and is 100.0 exactly when the path is non-empty and complete
C5_Progress ==
    op.name = "get_progress_percentage" =>
        /\ C5_Bounds(ret.value)
        /\ (Len(path.concept_ids) > 0 /\ DonePositions = 0) => ret.value = Zero
        /\ (Len(path.concept_ids) > 0 /\ DonePositions > 0) =>
               ret.value \in Near(int_true_divide(100 * DonePositions,
                                                  Len(path.concept_ids)))

\* one of three positions is completed: 33.33333333333333, not 33.333333333333336
C5_Witness ==
    /\ op.name = "get_progress_percentage"
    /\ path.concept_ids = <<"a", "a", "b">>
    /\ completed = <<"z", "b", "b">>
    /\ ret.value = NextDown(int_true_divide(100, 3))

\* C6: search_concepts returns exactly the stored concepts for which the
\* lower-cased query is a substring of the lower-cased name, description or one
\* keyword, each once; the empty query returns every stored concept
C6_Search ==
    op.name = "search_concepts" =>
        /\ ExactlyOnce(ret.value, {c \in Stored : Matches(op.query, c)})
        /\ op.query = <<>> => ExactlyOnce(ret.value, Stored)
        /\ (\A c \in Stored : ~Matches(op.query, c)) => ret.value = <<>>

\* "E" matches one of two concepts, through a keyword only
C6_Witness ==
    /\ op.name = "search_concepts"
    /\ op.query = <<"E">>
    /\ Len(concepts) = 2
    /\ Len(ret.value) = 1
    /\ ~IsSubstring(<<"e">>, lower(ret.value[1].name))
    /\ ~IsSubstring(<<"e">>, lower(ret.value[1].description))

\* C7: get_concepts_by_category returns exactly the stored concepts of the
\* category, and with a skill level exactly those of the category and the
\* level, which is get_concepts_by_category(category) filtered by the level
C7_ByCategory ==
    op.name = "get_concepts_by_category" =>
        /\ op.skill_level = "None" =>
               ExactlyOnce(ret.value, {c \in Stored : c.category = op.category})
        /\ op.skill_level # "None" =>
               /\ ExactlyOnce(ret.value,
                              {c \in Stored : /\ c.category = op.category
                                              /\ c.skill_level = op.skill_level})
               /\ ret.value =
                      SelectSeq(get_concepts_by_category(concepts, op.category, "None"),
                                LAMBDA c : c.skill_level = op.skill_level)

\* two concepts of the category, only the second of the level asked for
C7_Witness ==
    /\ op.name = "get_concepts_by_category"
    /\ op.skill_level # "None"
    /\ Len(concepts) = 2
    /\ concepts[1].value.category = op.category
    /\ concepts[1].value.skill_level # op.skill_level
    /\ ret.value = <<concepts[2].value>>

\* C8: get_concepts_by_level(L) returns exactly the stored concepts of level L,
\* each once; an overwritten concept is returned for its new level only; the
\* three results partition the stored concepts
C8_ByLevel ==
    /\ \A level \in SkillLevel :
           ExactlyOnce(get_concepts_by_level(concepts, level),
                       {c \in Stored : c.skill_level = level})
    /\ \A c \in Stored :
           Cardinality({level \in SkillLevel :
                            c \in Range(get_concepts_by_level(concepts, level))}) = 1
    /\ op.name = "get_concepts_by_level" =>
           ExactlyOnce(ret.value, {c \in Stored : c.skill_level = op.skill_level})
    /\ op.name = "add_concept" /\ op.replaced
           /\ op.old_level # last_added[op.id].value.skill_level =>
               \A c \in Range(get_concepts_by_level(concepts, op.old_level)) :
                   c.id # op.id

\* a concept was replaced by one of another level; both levels are queried
C8_Witness ==
    /\ op.name = "add_concept"
    /\ op.replaced
    /\ op.old_level = "beginner"
    /\ Len(get_concepts_by_level(concepts, "beginner")) = 1
    /\ Len(get_concepts_by_level(concepts, "expert")) = 1
    /\ get_concepts_by_level(concepts, "expert")[1].id = op.id

C9_Step ==
    /\ op'.name = "add_concept" =>
           /\ learning_paths' = learning_paths
           /\ \A id \in ConceptIds \ {op'.id} :
                  get_concept(concepts', id) = get_concept(concepts, id)
    /\ op'.name = "add_learning_path" =>
           /\ concepts' = concepts
           /\ \A id \in PathIds \ {op'.id} :
                  get_learning_path(learning_paths', id) =
                      get_learning_path(learning_paths, id)
    /\ op'.name \in QueryOps =>
           concepts' = concepts /\ learning_paths' = learning_paths

\* C9: add_concept changes only the entry of its id in the concept table,
\* add_learning_path only the entry of its id in the path table, and the
\* lookups and queries change neither table
C9_Frame == [][C9_Step]_vars

\* a second concept was added next to a first one, with a path stored
C9_Witness ==
    /\ op.name = "add_concept"
    /\ ~op.replaced
    /\ Len(concepts) = 2
    /\ Len(learning_paths) = 1

C10_Ordered ==
    /\ \A level \in SkillLevel : InFirstOrder(get_concepts_by_level(concepts, level))
    /\ \A category \in Categories, level \in SkillLevel \cup {"None"} :
           InFirstOrder(get_concepts_by_category(concepts, category, level))
    /\ \A query \in Queries : InFirstOrder(search_concepts(concepts, query))
    /\ op.name \in {"get_concepts_by_level", "get_concepts_by_category",
                    "search_concepts"} => InFirstOrder(ret.value)

C10_OrderKept ==
    /\ Len(first_order) <= Len(first_order')
    /\ SubSeq(first_order', 1, Len(first_order)) = first_order

\* C10: the results of get_concepts_by_level, get_concepts_by_category and
\* search_concepts are in the order in which the ids were first inserted; an
\* overwrite keeps the position, so the order of two ids never changes
C10_InsertionOrder == []C10_Ordered /\ [][C10_OrderKept]_vars

\* the id inserted first was overwritten after the second one was inserted,
\* and a query returns both
C10_Witness ==
    /\ op.name = "add_concept"
    /\ op.replaced
    /\ Len(first_order) = 2
    /\ first_order[1] = op.id
    /\ Len(search_concepts(concepts, <<>>)) = 2

====
